---- MODULE Spec2Model ----
(***************************************************************************)
(* marsh: the concurrent module-graph builder of src/service.rs.           *)
(*                                                                         *)
(* Runtime::process_path / process_source run as jobs on a work-stealing   *)
(* pool (rayon); init_cache_state / update_cache_state guard the Module    *)
(* Map with one (mutex, condvar) pair per path; AnalyzeService::run closes *)
(* the output channel with None; CollectorService::start drains it.        *)
(***************************************************************************)
EXTENDS Naturals, Integers, Sequences, FiniteSets, Bags, TLC

(***************************************************************************)
(* Bounds of the model.                                                    *)
(***************************************************************************)
\* worker threads of the pool
NumThreads == 2
\* import edges (specifiers) of a generated import graph, all files together
MaxEdges == 1

(***************************************************************************)
(* Paths.  A path is a string; what the code computes from a path          *)
(* (extension, parent, strip_prefix, the file it names) is tabulated for   *)
(* the paths of the fixture directory /w.                                  *)
(***************************************************************************)
Cwd == "/w"
PA == "/w/a.ts"
PB == "/w/b.ts"
PC == "/w/c.ts"
PV == "/w/v.vue"
PT == "/w/t.txt"
PL == "/w/LICENSE"
RelA == "a.ts"

AbsPaths == {PA, PB, PC, PV, PT, PL}
AllPaths == AbsPaths \cup {RelA}

\* Option<&str>::None of path.extension()
NoExt == "-"

\* path.extension().and_then(OsStr::to_str)
Extension(p) ==
    CASE p \in {PA, PB, PC, RelA} -> "ts"
      [] p = PV -> "vue"
      [] p = PT -> "txt"
      [] OTHER -> NoExt

\* path.parent().unwrap()
Parent(p) == IF p \in AbsPaths THEN Cwd ELSE ""

\* path.strip_prefix(&self.cwd).unwrap_or(path)
StripPrefix(p) ==
    CASE p = PA -> "a.ts"
      [] p = PB -> "b.ts"
      [] p = PC -> "c.ts"
      [] p = PV -> "v.vue"
      [] p = PT -> "t.txt"
      [] p = PL -> "LICENSE"
      [] OTHER -> p

\* the file a path names when it is opened (read_to_string follows the cwd)
FileOf(p) == IF p = RelA THEN PA ELSE p

VALID_EXTENSIONS == {"js", "mjs", "cjs", "jsx", "ts", "mts", "cts", "tsx"}
LINT_PARTIAL_LOADER_EXT == {"vue", "astro", "svelte"}

\* SourceType::from_path(path).is_ok()
SourceTypeFromPathOk(p) == Extension(p) \in VALID_EXTENSIONS

(***************************************************************************)
(* Specifiers and the resolver (oxc_resolver, configured by get_resolver   *)
(* with VALID_EXTENSIONS): a relative specifier names a file of /w, with   *)
(* or without its extension; "./missing" names no file.                    *)
(***************************************************************************)
Fail == "unresolved"
Specifiers == {"./a", "./b", "./b.ts", "./c", "./v.vue", "./t.txt", "./missing"}

\* resolver.resolve(dir, specifier).ok().map(|r| r.path())
Resolve(dir, specifier) ==
    IF dir # Cwd THEN Fail
    ELSE CASE specifier = "./a" -> PA
           [] specifier \in {"./b", "./b.ts"} -> PB
           [] specifier = "./c" -> PC
           [] specifier = "./v.vue" -> PV
           [] specifier = "./t.txt" -> PT
           [] OTHER -> Fail

(***************************************************************************)
(* Source texts.  A script (a native file, or one fragment of a container  *)
(* file) is what the parser and the module-record builder read from it.    *)
(***************************************************************************)
Script(imports, stars, exports, errors) ==
    [imports |-> imports, stars |-> stars, exports |-> exports, errors |-> errors]

Plain(imports) == Script(imports, <<>>, {}, FALSE)
Empty == Plain({})

\* a file: whether it can be read, and the scripts in its text
File(readable, scripts) == [readable |-> readable, scripts |-> scripts]
Native(script) == File(TRUE, <<script>>)

(***************************************************************************)
(* The runs that are checked: a file system for /w, the entry paths and    *)
(* the cross_module option.                                                *)
(***************************************************************************)
Text == File(TRUE, <<>>)

Fs(a, b, c, v) ==
    (PA :> a) @@ (PB :> b) @@ (PC :> c) @@ (PV :> v) @@ (PT :> Text) @@ (PL :> Text)

World(cross, entries, files) ==
    [cross_module |-> cross, paths |-> entries, fs |-> files]

GraphSpecifiers == {"./a", "./b", "./c"}

\* every import graph over a.ts, b.ts, c.ts with at most MaxEdges imports,
\* self-imports and 2-cycles included; a.ts and b.ts are the entry paths
GraphWorlds ==
    { World(TRUE, {PA, PB}, Fs(Native(Plain(ia)), Native(Plain(ib)), Native(Plain(ic)),
                               File(TRUE, <<>>))) :
        <<ia, ib, ic>> \in
            { g \in (SUBSET GraphSpecifiers) \X (SUBSET GraphSpecifiers)
                        \X (SUBSET GraphSpecifiers) :
                Cardinality(g[1]) + Cardinality(g[2]) + Cardinality(g[3]) <= MaxEdges } }

\* a.ts -> b.ts -> c.ts, entry a.ts
ChainWorld ==
    World(TRUE, {PA}, Fs(Native(Plain({"./b"})), Native(Plain({"./c"})), Native(Empty),
                        File(TRUE, <<>>)))

\* the 3-cycle a.ts -> b.ts -> c.ts -> a.ts, entered at two places
Cycle3World ==
    World(TRUE, {PA, PB}, Fs(Native(Plain({"./b"})), Native(Plain({"./c"})),
                            Native(Plain({"./a"})), File(TRUE, <<>>)))

\* b.ts: export * from "./c"; c.ts exports x and y; a.ts imports b.ts
StarWorld ==
    World(TRUE, {PA, PC},
          Fs(Native(Plain({"./b"})),
             Native(Script({}, <<"./c">>, {}, FALSE)),
             Native(Script({}, <<>>, {"x", "y"}, FALSE)),
             File(TRUE, <<>>)))

\* b.ts: export * from "./c"; c.ts: export * from "./a"; a.ts exports z
StarChainWorld ==
    World(TRUE, {PB, PC},
          Fs(Native(Script({}, <<>>, {"z"}, FALSE)),
             Native(Script({}, <<"./c">>, {}, FALSE)),
             Native(Script({}, <<"./a">>, {"y"}, FALSE)),
             File(TRUE, <<>>)))

\* star exports of a target that is Ignored, of one that does not resolve,
\* and one target named twice
StarIgnoredWorld ==
    World(TRUE, {PB},
          Fs(Native(Empty),
             Native(Script({"./t.txt"}, <<"./t.txt", "./missing", "./c", "./c">>, {}, FALSE)),
             Native(Script({}, <<>>, {"x"}, FALSE)),
             File(TRUE, <<>>)))

\* a container file with two fragments, imported by a.ts and given as entry
VueWorld ==
    World(TRUE, {PA, PV},
          Fs(Native(Plain({"./v.vue"})),
             Native(Script({}, <<>>, {"y"}, FALSE)),
             Native(Empty),
             File(TRUE, << Script({"./b"}, <<>>, {"x"}, FALSE),
                           Script({}, <<"./b">>, {}, FALSE) >>)))

\* a container file with no fragment, a file without extension, an
\* unsupported extension and an unresolvable specifier
IgnoredWorld ==
    World(TRUE, {PA, PL},
          Fs(Native(Plain({"./t.txt", "./missing", "./v.vue"})),
             Native(Empty), Native(Empty), File(TRUE, <<>>)))

\* a syntax error in a.ts, b.ts cannot be read
ErrorWorld ==
    World(TRUE, {PA, PB},
          Fs(Native(Script({"./b", "./c"}, <<>>, {}, TRUE)),
             File(FALSE, <<Empty>>), Native(Empty), File(TRUE, <<>>)))

\* two specifiers of one target
TwoSpecifiersWorld ==
    World(TRUE, {PA, PB},
          Fs(Native(Plain({"./b", "./b.ts"})), Native(Plain({"./a"})), Native(Empty),
             File(TRUE, <<>>)))

\* a.ts given relative to the cwd and imported by b.ts
RelativeWorld ==
    World(TRUE, {RelA, PB},
          Fs(Native(Empty), Native(Plain({"./a"})), Native(Empty), File(TRUE, <<>>)))

\* cross_module disabled
SingleFileWorld ==
    World(FALSE, {PA, PV, PT},
          Fs(Native(Plain({"./b"})), Native(Empty), Native(Empty),
             File(TRUE, <<Plain({"./a"}), Empty>>)))

\* a.ts imports b.ts under two specifiers and both are entry paths: three
\* jobs meet at b.ts
RaceWorld ==
    World(TRUE, {PA, PB},
          Fs(Native(Plain({"./b", "./b.ts"})), Native(Empty), Native(Empty), File(TRUE, <<>>)))

\* pool sizes: every world runs on 1..NumThreads workers, and the race on
\* b.ts on one worker more, so that two jobs wait for a third
RaceThreads == NumThreads + 1

Worlds ==
    GraphWorlds \cup
    { ChainWorld, Cycle3World, StarWorld, StarChainWorld, StarIgnoredWorld, VueWorld,
      IgnoredWorld, ErrorWorld, TwoSpecifiersWorld, RelativeWorld, SingleFileWorld }

(***************************************************************************)
(* State.                                                                  *)
(***************************************************************************)
VARIABLES
    resolver,       \* Runtime.resolver.is_some()
    paths,          \* Runtime.paths
    fs,             \* the files of /w
    cache_state,    \* Runtime.cache_state: path -> CacheStateEntry
    module_map,     \* Runtime.module_map: path -> ModuleState
    records,        \* the ModuleRecords built so far (the Arc<ModuleRecord>s)
    tasks,          \* the jobs of the pool that have started and not returned
    stacks,         \* per worker thread of the pool, the jobs it is running, innermost last
    chan,           \* everything sent on the output channel, in order
    received,       \* how many messages CollectorService::start has taken
    collecting,     \* CollectorService::start is still in its loop
    misses,         \* path -> calls of init_cache_state that returned false
    hits,           \* path -> calls of init_cache_state that returned true
    inserts,        \* path -> calls of module_map.insert
    inserted        \* the records that were put into the Module Map

vars == << resolver, paths, fs, cache_state, module_map, records, tasks, stacks,
           chan, received, collecting, misses, hits, inserts, inserted >>

config == << resolver, paths, fs >>
collector == << received, collecting >>

\* CacheStateEntry
ReadyToConstruct == [tag |-> "ReadyToConstruct", n |-> 0]
PendingStore(i) == [tag |-> "PendingStore", n |-> i]

\* a job is named by its place in the fan-out: <<>> is AnalyzeService::run,
\* <<p>> the job of entry path p, t \o <<s>> the job of specifier s of job t
Root == <<>>
NoTask == <<"-">>

\* a ModuleRecord is named by the job that built it and the fragment it is of
NoRecord == << NoTask, 0 >>

\* ModuleState
Resolved(r) == [tag |-> "Resolved", record |-> r]
Ignored == [tag |-> "Ignored", record |-> NoRecord]

\* Option<CollectorTuple>
Some(path, items) == [some |-> TRUE, path |-> path, items |-> items]
None == [some |-> FALSE, path |-> "", items |-> EmptyBag]

Task(path, pc) ==
    [path |-> path, pc |-> pc, frag |-> 0, star |-> 0, todo |-> {},
     blocked |-> FALSE, hit |-> FALSE, error |-> FALSE]

Top(th) == stacks[th][Len(stacks[th])]
Idle(th) == stacks[th] = <<>>
Pop(th) == [stacks EXCEPT ![th] = SubSeq(@, 1, Len(@) - 1)]
Push(th, t) == [stacks EXCEPT ![th] = Append(@, t)]

\* thread th is executing job t at program point pc
At(th, pc) == ~Idle(th) /\ tasks[Top(th)].pc = pc

ParentOf(t) == SubSeq(t, 1, Len(t) - 1)
Children(t) == { c \in DOMAIN tasks : Len(c) = Len(t) + 1 /\ ParentOf(c) = t }

\* the record job t is working on
RecordOf(t) == << t, tasks[t].frag >>

Count(f, p) == IF p \in DOMAIN f THEN f[p] ELSE 0
Bump(f, p) == [q \in DOMAIN f \cup {p} |-> IF q = p THEN Count(f, p) + 1 ELSE f[q]]
Put(f, k, v) == [q \in DOMAIN f \cup {k} |-> IF q = k THEN v ELSE f[q]]

Init ==
    /\ \E w \in Worlds \cup {RaceWorld} :
          /\ resolver = w.cross_module
          /\ paths = w.paths
          /\ fs = w.fs
          /\ \E n \in 1..RaceThreads :
                /\ (n = RaceThreads) = (w = RaceWorld)
                /\ stacks = [th \in 1..n |-> IF th = 1 THEN << Root >> ELSE << >>]
    /\ cache_state = << >>
    /\ module_map = << >>
    /\ records = << >>
    /\ tasks = (Root :> Task("", "run"))
    /\ chan = << >>
    /\ received = 0
    /\ collecting = TRUE
    /\ misses = << >>
    /\ hits = << >>
    /\ inserts = << >>
    /\ inserted = {}

(***************************************************************************)
(* The output channel and the collector.                                   *)
(***************************************************************************)
\* tx_error.send(m)
Send(m) == chan' = Append(chan, m)

\* one turn of the loop of CollectorService::start
CollectorStart ==
    /\ collecting
    /\ received < Len(chan)
    /\ received' = received + 1
    /\ collecting' = chan[received + 1].some
    /\ UNCHANGED << config, cache_state, module_map, records, tasks, stacks, chan,
                    misses, hits, inserts, inserted >>

\* CollectorService.deps: one pair per string of every message taken
Deps ==
    LET Pairs(m) == [ pr \in {m.path} \X DOMAIN m.items |-> m.items[pr[2]] ]
        Sum[i \in 0..received] ==
            IF i = 0 THEN EmptyBag
            ELSE IF chan[i].some THEN Sum[i - 1] (+) Pairs(chan[i]) ELSE Sum[i - 1]
    IN  Sum[received]

(***************************************************************************)
(* The pool: AnalyzeService::run and the fan-out of jobs.                  *)
(***************************************************************************)
\* a worker takes a job when it has none, or while the job it runs waits
\* for the jobs of its own fan-out (rayon steals work while it waits)
CanTake(th) == Idle(th) \/ At(th, "barrier")

\* AnalyzeService::run: paths.iter().par_bridge().for_each_with(..)
Run(th) ==
    /\ At(th, "run")
    /\ tasks' = [tasks EXCEPT ![Root].todo = paths, ![Root].pc = "barrier"]
    /\ UNCHANGED << config, cache_state, module_map, records, stacks, chan, collector,
                    misses, hits, inserts, inserted >>

\* a worker takes entry path p: runtime.process_path(path, tx_error)
StartEntry(th, p) ==
    /\ CanTake(th)
    /\ tasks[Root].pc = "barrier"
    /\ p \in tasks[Root].todo
    /\ tasks' = (<< p >> :> Task(p, "init")) @@ [tasks EXCEPT ![Root].todo = @ \ {p}]
    /\ stacks' = Push(th, << p >>)
    /\ UNCHANGED << config, cache_state, module_map, records, chan, collector,
                    misses, hits, inserts, inserted >>

\* mutant: a specifier that does not resolve is reported on the channel
ResolveFailed_Reported(th, t, s) ==
    /\ CanTake(th)
    /\ t # Root /\ tasks[t].pc = "barrier" /\ s \in tasks[t].todo
    /\ Resolve(Parent(tasks[t].path), s) = Fail
    /\ tasks' = [tasks EXCEPT ![t].todo = @ \ {s}]
    /\ chan' = Append(chan, [some |-> TRUE, path |-> tasks[t].path,
                              items |-> SetToBag({"Cannot resolve"})])
    /\ UNCHANGED << config, cache_state, module_map, records, stacks, collector,
                    misses, hits, inserts, inserted >>

\* a worker takes specifier s of job t: resolver.resolve(dir, specifier).ok()
\* is None, and flatten() drops the specifier
ResolveFailed(th, t, s) ==
    /\ CanTake(th)
    /\ t # Root /\ tasks[t].pc = "barrier" /\ s \in tasks[t].todo
    /\ Resolve(Parent(tasks[t].path), s) = Fail
    /\ tasks' = [tasks EXCEPT ![t].todo = @ \ {s}]
    /\ UNCHANGED << config, cache_state, module_map, records, stacks, chan, collector,
                    misses, hits, inserts, inserted >>

\* a worker takes specifier s of job t, which resolves: the closure of
\* for_each_with starts with self.process_path(resolution.path(), tx_error)
StartDependency(th, t, s) ==
    /\ CanTake(th)
    /\ t # Root /\ tasks[t].pc = "barrier" /\ s \in tasks[t].todo
    /\ Resolve(Parent(tasks[t].path), s) # Fail
    /\ tasks' = (Append(t, s) :> Task(Resolve(Parent(tasks[t].path), s), "init"))
                    @@ [tasks EXCEPT ![t].todo = @ \ {s}]
    /\ stacks' = Push(th, Append(t, s))
    /\ UNCHANGED << config, cache_state, module_map, records, chan, collector,
                    misses, hits, inserts, inserted >>

\* mutant: a fan-out is over when every specifier was handed out
FanOutDone_HandedOut(t) == tasks[t].todo = {}

\* the end of a fan-out
FanOutDone(t) == tasks[t].todo = {} /\ Children(t) = {}

\* mutant: run does not wait for the jobs that are still running
RunFanOutDone_NoJoin == tasks[Root].todo = {}

\* the end of the fan-out of run
RunFanOutDone == FanOutDone(Root)

\* AnalyzeService::run: for_each_with has returned; tx_error.send(None)
RunBarrier(th) ==
    /\ At(th, "barrier") /\ Top(th) = Root
    /\ RunFanOutDone
    /\ tasks' = [tasks EXCEPT ![Root].pc = "sentinel"]
    /\ UNCHANGED << config, cache_state, module_map, records, stacks, chan, collector,
                    misses, hits, inserts, inserted >>

SendNone(th) ==
    /\ At(th, "sentinel")
    /\ Send(None)
    /\ tasks' = [tasks EXCEPT ![Root].pc = "done"]
    /\ stacks' = Pop(th)
    /\ UNCHANGED << config, cache_state, module_map, records, collector,
                    misses, hits, inserts, inserted >>

(***************************************************************************)
(* The Cache-State Table: init_cache_state and update_cache_state.         *)
(***************************************************************************)
\* the threads blocked in cvar.wait_while of path p
Waiters(p) == { w \in DOMAIN tasks : tasks[w].pc = "waiting" /\ tasks[w].path = p }

\* cvar.notify_one() on the condvar of p, applied to the jobs tk: one of the
\* blocked threads, if there is any, wakes up and takes the mutex again
NotifyOne(p, tk) ==
    IF Waiters(p) = {} THEN { tk }
    ELSE { [tk EXCEPT ![w].pc = "lock"] : w \in Waiters(p) }

\* mutant: wait_while never blocks
WaitWhile_Never(state) == FALSE

\* the predicate of wait_while: matches!(*state, PendingStore(_))
WaitWhile(state) == state.tag = "PendingStore"

\* self.module_map.contains_key(path)
CacheHit(p) == p \in DOMAIN module_map

\* the state a miss leaves: PendingStore(i + 1)
Claim(state) == PendingStore((IF state.tag = "PendingStore" THEN state.n ELSE 0) + 1)

\* mutant: a hit notifies nobody
NotifyAfterInit_None(p, state, tk) == { tk }

\* if *state == ReadyToConstruct { cvar.notify_one() }, at the end of
\* init_cache_state
NotifyAfterInit(p, state, tk) ==
    IF state = ReadyToConstruct THEN NotifyOne(p, tk) ELSE { tk }

\* mutant: update_cache_state decrements the counter of every entry
Release_Unguarded(state) ==
    IF state.n - 1 = 0 THEN ReadyToConstruct ELSE PendingStore(state.n - 1)

\* the state update_cache_state leaves
Release(state) ==
    IF state.tag = "PendingStore"
    THEN IF state.n - 1 = 0 THEN ReadyToConstruct ELSE PendingStore(state.n - 1)
    ELSE state

\* mutant: update_cache_state notifies nobody
NotifyAfterUpdate_None(p, state, tk) == { tk }

\* cvar.notify_one() of update_cache_state, when the counter reaches zero
NotifyAfterUpdate(p, state, tk) ==
    IF state.tag = "PendingStore" /\ state.n - 1 = 0 THEN NotifyOne(p, tk) ELSE { tk }

\* update_cache_state(path), by job t which goes on at pc, with todo to fan out
UpdateCacheState(t, pc, todo) ==
    LET p == tasks[t].path
        tk == [tasks EXCEPT ![t].pc = pc, ![t].todo = todo]
    IN  /\ p \in DOMAIN cache_state
        /\ cache_state' = [cache_state EXCEPT ![p] = Release(@)]
        /\ tasks' \in NotifyAfterUpdate(p, cache_state[p], tk)

\* init_cache_state, up to the entry of the path in the table
\* (resolver.is_none(): return false)
InitCacheStateEntry(th) ==
    /\ At(th, "init")
    /\ LET t == Top(th)
           p == tasks[t].path
       IN  IF ~resolver
           THEN /\ tasks' = [tasks EXCEPT ![t].pc = "load"]
                /\ misses' = Bump(misses, p)
                /\ UNCHANGED cache_state
           ELSE /\ cache_state' =
                      IF p \in DOMAIN cache_state THEN cache_state
                      ELSE Put(cache_state, p, ReadyToConstruct)
                /\ tasks' = [tasks EXCEPT ![t].pc = "lock"]
                /\ UNCHANGED misses
    /\ UNCHANGED << config, module_map, records, stacks, chan, collector,
                    hits, inserts, inserted >>

\* init_cache_state: wait_while finds PendingStore and blocks
InitCacheStateWait(th) ==
    /\ At(th, "lock")
    /\ WaitWhile(cache_state[tasks[Top(th)].path])
    /\ tasks' = [tasks EXCEPT ![Top(th)].pc = "waiting", ![Top(th)].blocked = TRUE]
    /\ UNCHANGED << config, cache_state, module_map, records, stacks, chan, collector,
                    misses, hits, inserts, inserted >>

\* mutant: a hit counts as a claim too
InitCacheStateCheck_HitClaims(th) ==
    /\ At(th, "lock")
    /\ ~WaitWhile(cache_state[tasks[Top(th)].path])
    /\ LET t == Top(th)
           p == tasks[t].path
           state == Claim(cache_state[p])
       IN  /\ cache_state' = [cache_state EXCEPT ![p] = state]
           /\ IF CacheHit(p)
              THEN /\ hits' = Bump(hits, p)
                   /\ UNCHANGED misses
                   /\ tasks' \in NotifyAfterInit(p, state,
                          [tasks EXCEPT ![t].pc = "returned", ![t].hit = TRUE])
              ELSE /\ misses' = Bump(misses, p)
                   /\ UNCHANGED hits
                   /\ tasks' \in NotifyAfterInit(p, state, [tasks EXCEPT ![t].pc = "load"])
    /\ UNCHANGED << config, module_map, records, stacks, chan, collector,
                    inserts, inserted >>

\* init_cache_state: wait_while returns with the mutex held; the Module Map
\* is looked up, a miss is recorded in the entry, one waiter is notified
InitCacheStateCheck(th) ==
    /\ At(th, "lock")
    /\ ~WaitWhile(cache_state[tasks[Top(th)].path])
    /\ LET t == Top(th)
           p == tasks[t].path
           state == IF CacheHit(p) THEN cache_state[p] ELSE Claim(cache_state[p])
       IN  /\ cache_state' = [cache_state EXCEPT ![p] = state]
           /\ IF CacheHit(p)
              THEN /\ hits' = Bump(hits, p)
                   /\ UNCHANGED misses
                   /\ tasks' \in NotifyAfterInit(p, state,
                          [tasks EXCEPT ![t].pc = "returned", ![t].hit = TRUE])
              ELSE /\ misses' = Bump(misses, p)
                   /\ UNCHANGED hits
                   /\ tasks' \in NotifyAfterInit(p, state, [tasks EXCEPT ![t].pc = "load"])
    /\ UNCHANGED << config, module_map, records, stacks, chan, collector,
                    inserts, inserted >>

\* Condvar::wait_while may wake up without a notification; it then takes the
\* mutex and evaluates the predicate again
SpuriousWakeup(th) ==
    /\ At(th, "waiting")
    /\ tasks' = [tasks EXCEPT ![Top(th)].pc = "lock"]
    /\ UNCHANGED << config, cache_state, module_map, records, stacks, chan, collector,
                    misses, hits, inserts, inserted >>

(***************************************************************************)
(* Runtime::process_path.                                                  *)
(***************************************************************************)
\* get_source_type_and_text(path, ext): None, Some(Err(_)) or Some(Ok(_))
GetSourceTypeAndText(p) ==
    IF ~SourceTypeFromPathOk(p) /\ Extension(p) \notin LINT_PARTIAL_LOADER_EXT THEN "None"
    ELSE IF fs[FileOf(p)].readable THEN "Ok" ELSE "Err"

\* PartialLoader::parse(ext, &source_text)
\*     .unwrap_or_else(|| vec![JavaScriptSource::partial(&source_text, source_type, 0)])
Sources(p) ==
    IF Extension(p) \in LINT_PARTIAL_LOADER_EXT THEN fs[FileOf(p)].scripts
    ELSE << fs[FileOf(p)].scripts[1] >>

\* process_path after a miss: the extension, the text and the fragments
Load(th) ==
    /\ At(th, "load")
    /\ LET t == Top(th)
           p == tasks[t].path
       IN  tasks' =
             IF Extension(p) = NoExt \/ GetSourceTypeAndText(p) = "None"
             THEN [tasks EXCEPT ![t].pc = "ignore"]
             ELSE IF GetSourceTypeAndText(p) = "Err"
             THEN [tasks EXCEPT ![t].pc = "ignore", ![t].error = TRUE]
             ELSE IF Sources(p) = << >>
             THEN [tasks EXCEPT ![t].pc = "ignore"]
             ELSE [tasks EXCEPT ![t].pc = "parse", ![t].frag = 1]
    /\ UNCHANGED << config, cache_state, module_map, records, stacks, chan, collector,
                    misses, hits, inserts, inserted >>

\* mutant: the read-error branch returns without sending the diagnostic
AfterIgnore_Silent(t) == "returned"

\* where process_path goes on after ignore_path
AfterIgnore(t) == IF tasks[t].error THEN "diagnostic" ELSE "returned"

\* mutant: ignore_path releases the entry and inserts nothing
IgnorePathInsert_NoInsert(th) ==
    /\ At(th, "ignore")
    /\ tasks' = [tasks EXCEPT ![Top(th)].pc = IF resolver THEN "ignore_update"
                                               ELSE AfterIgnore(Top(th))]
    /\ UNCHANGED << config, cache_state, module_map, records, stacks, chan, collector,
                    misses, hits, inserts, inserted >>

\* ignore_path: module_map.insert(path, ModuleState::Ignored)
IgnorePathInsert(th) ==
    /\ At(th, "ignore")
    /\ LET t == Top(th)
           p == tasks[t].path
       IN  IF resolver
           THEN /\ module_map' = Put(module_map, p, Ignored)
                /\ inserts' = Bump(inserts, p)
                /\ tasks' = [tasks EXCEPT ![t].pc = "ignore_update"]
           ELSE /\ tasks' = [tasks EXCEPT ![t].pc = AfterIgnore(t)]
                /\ UNCHANGED << module_map, inserts >>
    /\ UNCHANGED << config, cache_state, records, stacks, chan, collector,
                    misses, hits, inserted >>

\* mutant: ignore_path does not release the entry
IgnorePathUpdate_NoRelease(th) ==
    /\ At(th, "ignore_update")
    /\ tasks' = [tasks EXCEPT ![Top(th)].pc = AfterIgnore(Top(th))]
    /\ UNCHANGED << config, cache_state, module_map, records, stacks, chan, collector,
                    misses, hits, inserts, inserted >>

\* ignore_path: self.update_cache_state(path)
IgnorePathUpdate(th) ==
    /\ At(th, "ignore_update")
    /\ UpdateCacheState(Top(th), AfterIgnore(Top(th)), {})
    /\ UNCHANGED << config, module_map, records, stacks, chan, collector,
                    misses, hits, inserts, inserted >>

ReadError(p) == SetToBag({"Failed to open file"})
SyntaxErrors(p) == SetToBag({"Unexpected token"})

\* the read failed: tx_error.send(Some((path, vec![format!("{}", e)])))
SendReadError(th) ==
    /\ At(th, "diagnostic")
    /\ Send(Some(tasks[Top(th)].path, ReadError(tasks[Top(th)].path)))
    /\ tasks' = [tasks EXCEPT ![Top(th)].pc = "returned"]
    /\ UNCHANGED << config, cache_state, module_map, records, stacks, collector,
                    misses, hits, inserts, inserted >>

(***************************************************************************)
(* Runtime::process_source.                                                *)
(***************************************************************************)
\* SemanticBuilder::build_module_record(path, program).module_record()
BuildModuleRecord(p, script) ==
    [ resolved_absolute_path |-> p,
      requested_modules |-> script.imports \cup { script.stars[i] : i \in DOMAIN script.stars },
      star_export_entries |-> script.stars,
      exported_bindings |-> script.exports,
      loaded_modules |-> << >>,
      exported_bindings_from_star_export |-> << >> ]

\* mutant: the entry is released without the record being inserted
AfterBuild_NoInsert == IF resolver THEN "update" ELSE "collect"

\* where process_source goes on with the record: if self.resolver.is_some()
AfterBuild == IF resolver THEN "insert" ELSE "collect"

\* mutant: a script with a syntax error is reported and the path is ignored
Parse_AbortOnError(th) ==
    /\ At(th, "parse")
    /\ LET t == Top(th)
           p == tasks[t].path
           script == Sources(p)[tasks[t].frag]
       IN  IF script.errors
           THEN /\ Send(Some(p, SyntaxErrors(p)))
                /\ tasks' = [tasks EXCEPT ![t].pc = "ignore"]
                /\ UNCHANGED records
           ELSE /\ UNCHANGED chan
                /\ records' = Put(records, RecordOf(t), BuildModuleRecord(p, script))
                /\ tasks' = [tasks EXCEPT ![t].pc = AfterBuild]
    /\ UNCHANGED << config, cache_state, module_map, stacks, collector,
                    misses, hits, inserts, inserted >>

\* the parser runs; its errors are sent; the module record is built
Parse(th) ==
    /\ At(th, "parse")
    /\ LET t == Top(th)
           p == tasks[t].path
           script == Sources(p)[tasks[t].frag]
       IN  /\ IF script.errors THEN Send(Some(p, SyntaxErrors(p))) ELSE UNCHANGED chan
           /\ records' = Put(records, RecordOf(t), BuildModuleRecord(p, script))
           /\ tasks' = [tasks EXCEPT ![t].pc = AfterBuild]
    /\ UNCHANGED << config, cache_state, module_map, stacks, collector,
                    misses, hits, inserts, inserted >>

\* self.module_map.insert(path, ModuleState::Resolved(Arc::clone(&module_record)))
Insert(th) ==
    /\ At(th, "insert")
    /\ LET t == Top(th)
           p == tasks[t].path
       IN  /\ module_map' = Put(module_map, p, Resolved(RecordOf(t)))
           /\ inserts' = Bump(inserts, p)
           /\ inserted' = inserted \cup { RecordOf(t) }
           /\ tasks' = [tasks EXCEPT ![t].pc = "update"]
    /\ UNCHANGED << config, cache_state, records, stacks, chan, collector, misses, hits >>

\* mutant: the specifiers are handed to the pool before the entry is released
Update_FanOutFirst(th) ==
    /\ At(th, "update")
    /\ tasks' = [tasks EXCEPT ![Top(th)].pc = "barrier",
                              ![Top(th)].todo = records[RecordOf(Top(th))].requested_modules]
    /\ UNCHANGED << config, cache_state, module_map, records, stacks, chan, collector,
                    misses, hits, inserts, inserted >>

\* self.update_cache_state(path); then module_record.requested_modules.keys()
\* .par_bridge() hands the specifiers to the pool
Update(th) ==
    /\ At(th, "update")
    /\ UpdateCacheState(Top(th), "barrier", records[RecordOf(Top(th))].requested_modules)
    /\ UNCHANGED << config, module_map, records, stacks, chan, collector,
                    misses, hits, inserts, inserted >>

\* where process_source goes on after the fan-out: the star exports, if any
AfterFanOut(r) == IF records[r].star_export_entries = << >> THEN "collect" ELSE "star"

\* for_each_with has returned: every specifier's job has
Barrier(th) ==
    /\ At(th, "barrier") /\ Top(th) # Root
    /\ FanOutDone(Top(th))
    /\ tasks' = [tasks EXCEPT ![Top(th)].pc = AfterFanOut(RecordOf(Top(th))),
                              ![Top(th)].star = 1]
    /\ UNCHANGED << config, cache_state, module_map, records, stacks, chan, collector,
                    misses, hits, inserts, inserted >>

\* the concatenation of the values of a table of bindings
RECURSIVE FlatValues(_)
FlatValues(table) ==
    IF DOMAIN table = {} THEN EmptyBag
    ELSE LET k == CHOOSE q \in DOMAIN table : TRUE
         IN  table[k] (+) FlatValues([q \in DOMAIN table \ {k} |-> table[q]])

\* mutant: the remote's own exported bindings are left out
RemoteBindings_StarOnly(remote) == FlatValues(remote.exported_bindings_from_star_export)

\* remote.exported_bindings.keys().cloned()
\*     .chain(remote.exported_bindings_from_star_export values).collect()
RemoteBindings(remote) ==
    SetToBag(remote.exported_bindings) (+) FlatValues(remote.exported_bindings_from_star_export)

\* one entry of the loop over module_record.star_export_entries, of record r
StarExportEntry(r, entry) ==
    IF entry \notin DOMAIN records[r].loaded_modules THEN records
    ELSE LET remote == records[records[r].loaded_modules[entry]]
             key == remote.resolved_absolute_path
             table == records[r].exported_bindings_from_star_export
             old == IF key \in DOMAIN table THEN table[key] ELSE EmptyBag
         IN  [records EXCEPT ![r].exported_bindings_from_star_export =
                                   Put(table, key, old (+) RemoteBindings(remote))]

StarExport(th) ==
    /\ At(th, "star")
    /\ LET t == Top(th)
           r == RecordOf(t)
           k == tasks[t].star
       IN  /\ records' = StarExportEntry(r, records[r].star_export_entries[k])
           /\ tasks' = IF k < Len(records[r].star_export_entries)
                       THEN [tasks EXCEPT ![t].star = k + 1]
                       ELSE [tasks EXCEPT ![t].pc = "collect"]
    /\ UNCHANGED << config, cache_state, module_map, stacks, chan, collector,
                    misses, hits, inserts, inserted >>

\* mutant: one Message per requested specifier that resolves
ImportModules_Requested(r) ==
    LET targets == { Resolve(Parent(records[r].resolved_absolute_path), s) :
                        s \in records[r].requested_modules } \ {Fail}
    IN  SetToBag(targets)

\* import_modules: one Message per entry of module_record.loaded_modules
ImportModules(r) ==
    LET loaded == records[r].loaded_modules
        Sum[S \in SUBSET DOMAIN loaded] ==
            IF S = {} THEN EmptyBag
            ELSE LET k == CHOOSE q \in S : TRUE
                 IN  Sum[S \ {k}] (+) SetToBag({ records[loaded[k]].resolved_absolute_path })
    IN  Sum[DOMAIN loaded]

\* process_source returns import_modules; process_path wraps and sends them
\* when there are any, and goes on with the next fragment
Collect(th) ==
    /\ At(th, "collect")
    /\ LET t == Top(th)
           p == tasks[t].path
           messages == ImportModules(RecordOf(t))
       IN  /\ IF messages # EmptyBag THEN Send(Some(StripPrefix(p), messages))
              ELSE UNCHANGED chan
           /\ tasks' = IF tasks[t].frag < Len(Sources(p))
                       THEN [tasks EXCEPT ![t].pc = "parse", ![t].frag = @ + 1]
                       ELSE [tasks EXCEPT ![t].pc = "returned"]
    /\ UNCHANGED << config, cache_state, module_map, records, stacks, collector,
                    misses, hits, inserts, inserted >>

Without(f, k) == [q \in DOMAIN f \ {k} |-> f[q]]

\* process_path of an entry path has returned to the closure of run
EntryReturn(th) ==
    /\ At(th, "returned") /\ Len(Top(th)) = 1
    /\ tasks' = Without(tasks, Top(th))
    /\ stacks' = Pop(th)
    /\ UNCHANGED << config, cache_state, module_map, records, chan, collector,
                    misses, hits, inserts, inserted >>

\* the record the closure attaches under the specifier, if any:
\* module_map.get(path) is Some(Resolved(target_module_record))
Target(p) ==
    IF p \in DOMAIN module_map /\ module_map[p].tag = "Resolved"
    THEN module_map[p].record ELSE NoRecord

\* mutant: only the job that built the target attaches it
Attach_BuilderOnly(th) ==
    /\ At(th, "returned") /\ Len(Top(th)) > 1
    /\ LET t == Top(th)
           parent == RecordOf(ParentOf(t))
           target == Target(tasks[t].path)
       IN  records' =
             IF target = NoRecord \/ tasks[t].hit THEN records
             ELSE [records EXCEPT ![parent].loaded_modules = Put(@, t[Len(t)], target)]
    /\ tasks' = Without(tasks, Top(th))
    /\ stacks' = Pop(th)
    /\ UNCHANGED << config, cache_state, module_map, chan, collector,
                    misses, hits, inserts, inserted >>

\* process_path of a dependency has returned to the closure of for_each_with:
\* the target is looked up and appended to the parent's loaded_modules
Attach(th) ==
    /\ At(th, "returned") /\ Len(Top(th)) > 1
    /\ LET t == Top(th)
           parent == RecordOf(ParentOf(t))
           specifier == t[Len(t)]
           target == Target(tasks[t].path)
       IN  records' =
             IF target = NoRecord THEN records
             ELSE [records EXCEPT ![parent].loaded_modules = Put(@, specifier, target)]
    /\ tasks' = Without(tasks, Top(th))
    /\ stacks' = Pop(th)
    /\ UNCHANGED << config, cache_state, module_map, chan, collector,
                    misses, hits, inserts, inserted >>

(***************************************************************************)
(* The specification.                                                      *)
(***************************************************************************)
Step(th) ==
    \/ Run(th)
    \/ \E p \in AllPaths : StartEntry(th, p)
    \/ \E t \in DOMAIN tasks : \E s \in Specifiers : ResolveFailed(th, t, s)
    \/ \E t \in DOMAIN tasks : \E s \in Specifiers : StartDependency(th, t, s)
    \/ InitCacheStateEntry(th)
    \/ InitCacheStateWait(th)
    \/ InitCacheStateCheck(th)
    \/ Load(th)
    \/ IgnorePathInsert(th)
    \/ IgnorePathUpdate(th)
    \/ SendReadError(th)
    \/ Parse(th)
    \/ Insert(th)
    \/ Update(th)
    \/ Barrier(th)
    \/ StarExport(th)
    \/ Collect(th)
    \/ EntryReturn(th)
    \/ Attach(th)
    \/ RunBarrier(th)
    \/ SendNone(th)

Progress == CollectorStart \/ \E th \in DOMAIN stacks : Step(th)

Next == Progress \/ \E th \in DOMAIN stacks : SpuriousWakeup(th)

Spec == Init /\ [][Next]_vars

\* every worker thread and the collector's thread keep running: a step that
\* stays possible for a thread is taken; a wake-up without notification is
\* possible and never certain
FairSpec ==
    /\ Spec
    /\ WF_vars(CollectorStart)
    /\ \A th \in 1..RaceThreads : WF_vars(th \in DOMAIN stacks /\ Step(th))

\* the run has returned and the collector has left its loop
Terminated == tasks[Root].pc = "done" /\ ~collecting

(***************************************************************************)
(* Properties.                                                             *)
(***************************************************************************)
Terminal(p) == p \in DOMAIN module_map /\ module_map[p].tag \in {"Resolved", "Ignored"}

IsResolved(p) == p \in DOMAIN module_map /\ module_map[p].tag = "Resolved"

\* the run has returned: for_each_with of run is over and None was sent
RunDone == tasks[Root].pc = "done"

\* job t is between its miss in init_cache_state and its return
Building(t) ==
    tasks[t].pc \in {"load", "ignore", "ignore_update", "diagnostic", "parse", "insert",
                     "update", "barrier", "star", "collect"}

\* C1: with cross-module resolution, of all the calls of process_path(p)
\* exactly one misses in init_cache_state and builds p and every other call
\* is a hit, however the calls interleave; when the run has returned, every
\* path that was visited has missed exactly once and has one terminal state
\* in the Module Map, and the Module Map holds nothing else.
C1_ExactlyOneBuilder ==
    resolver =>
      /\ \A p \in AllPaths :
           /\ Count(misses, p) <= 1
           /\ Count(hits, p) > 0 => Count(misses, p) = 1
           /\ Cardinality({ t \in DOMAIN tasks \ {Root} :
                               tasks[t].path = p /\ Building(t) /\ ~tasks[t].hit }) <= 1
      /\ RunDone =>
           /\ DOMAIN module_map = DOMAIN cache_state
           /\ \A p \in DOMAIN cache_state : Count(misses, p) = 1 /\ Terminal(p)

\* two jobs of one path at once: one builds it, the other is blocked on it
C1_Witness ==
    /\ resolver
    /\ \E t1, t2 \in DOMAIN tasks \ {Root} :
          /\ t1 # t2 /\ tasks[t1].path = tasks[t2].path
          /\ tasks[t1].pc = "insert" /\ tasks[t2].pc = "waiting"

\* C2: with cross-module resolution, when process_path(p) has returned (after
\* a hit, a build or ignore_path) the Module Map holds Resolved or Ignored for
\* p, so the closure's module_map.get(path) after the call finds the target.
C2_TerminalOnReturn ==
    resolver =>
      \A t \in DOMAIN tasks \ {Root} : tasks[t].pc = "returned" => Terminal(tasks[t].path)

\* a dependency's process_path has returned from a hit on a path that another
\* job has ignored
C2_Witness ==
    /\ resolver
    /\ \E t \in DOMAIN tasks : /\ Len(t) > 1 /\ tasks[t].pc = "returned" /\ tasks[t].hit
                                /\ module_map[tasks[t].path] = Ignored

\* C3: insertion happens before release, release before a waiter's return: a
\* call of init_cache_state(p) that was blocked returns a hit with p in the
\* Module Map; an entry that is ReadyToConstruct after a claim has p in the
\* Module Map; and only records that were inserted into the Module Map are
\* attached to a dependency map.
C3_InsertBeforeRelease ==
    /\ \A t \in DOMAIN tasks :
          tasks[t].blocked /\ tasks[t].pc \notin {"lock", "waiting"}
             => tasks[t].hit /\ tasks[t].pc = "returned" /\ tasks[t].path \in DOMAIN module_map
    /\ \A p \in DOMAIN cache_state :
          cache_state[p] = ReadyToConstruct /\ Count(misses, p) > 0
             => p \in DOMAIN module_map
    /\ \A r \in DOMAIN records : \A s \in DOMAIN records[r].loaded_modules :
          records[r].loaded_modules[s] \in inserted

\* a call that was blocked has returned and its parent has attached the record
C3_Witness ==
    /\ \E t \in DOMAIN tasks : tasks[t].blocked /\ tasks[t].pc = "returned"
    /\ \E r \in DOMAIN records : records[r].loaded_modules # << >>

(***************************************************************************)
(* The import graph of the file system.                                    *)
(***************************************************************************)
\* the specifiers the scripts of p request
RequestedBy(p) ==
    IF Extension(p) = NoExt \/ GetSourceTypeAndText(p) # "Ok" THEN {}
    ELSE UNION { BuildModuleRecord(p, Sources(p)[i]).requested_modules :
                    i \in DOMAIN Sources(p) }

\* the paths p imports
Imports(p) == { Resolve(Parent(p), s) : s \in RequestedBy(p) } \ {Fail}

RECURSIVE Closure(_)
Closure(S) ==
    LET next == S \cup UNION { Imports(p) : p \in S }
    IN  IF next = S THEN S ELSE Closure(next)

\* p imports itself, directly or through other files
OnCycle(p) == p \in Closure(Imports(p))

\* every worker has returned from every job
AllIdle == \A th \in DOMAIN stacks : Idle(th)

\* C4: a cross-module run terminates, for every import graph (self-imports,
\* 2-cycles and longer cycles included), every pool size and every
\* interleaving: run returns, no job is left blocked on a condvar or at the
\* barrier of its fan-out, and every visited file of a cycle that can be
\* read and parsed is Resolved.
C4_Terminates ==
    <>[]( resolver =>
            /\ RunDone /\ AllIdle /\ DOMAIN tasks = {Root}
            /\ \A p \in DOMAIN cache_state :
                  OnCycle(p) /\ Extension(p) # NoExt /\ GetSourceTypeAndText(p) = "Ok"
                     => IsResolved(p) )

\* a path is visited again from inside its own fan-out: a job's path is the
\* path of one of the jobs it descends from
C4_Witness ==
    /\ resolver
    /\ \E t \in DOMAIN tasks \ {Root} :
          /\ tasks[t].pc = "returned" /\ tasks[t].hit
          /\ \E k \in 1..(Len(t) - 2) :
                /\ SubSeq(t, 1, k) \in DOMAIN tasks
                /\ tasks[SubSeq(t, 1, k)].path = tasks[t].path
                /\ tasks[SubSeq(t, 1, k)].path # tasks[ParentOf(t)].path

(***************************************************************************)
(* Dependency maps, edges, the sentinel.                                   *)
(***************************************************************************)
PathOf(r) == records[r].resolved_absolute_path

\* what specifier s of record r resolves to
TargetOf(r, s) == Resolve(Parent(PathOf(r)), s)

\* a message that carries diagnostics, not edges
IsDiagnostic(m) == m.items \in { ReadError(m.path), SyntaxErrors(m.path) }

\* the edge (from, to) has been sent
EdgeSent(from, to) ==
    \E i \in DOMAIN chan : chan[i].some /\ chan[i].path = from /\ BagIn(to, chan[i].items)

\* C5: with cross-module resolution, when the run has returned, every record
\* that was inserted for a path A and requests a specifier that resolves to
\* a path B which is Resolved has an entry for the specifier in its
\* loaded_modules that points to a record of B taken from the Module Map
\* (the record of B, when B has one), and the edge (A, B) has been sent; in
\* every interleaving, also when another job built B.
C5_ImportAttached ==
    resolver /\ RunDone =>
      \A r \in inserted : \A s \in records[r].requested_modules :
         TargetOf(r, s) # Fail /\ IsResolved(TargetOf(r, s)) =>
            /\ s \in DOMAIN records[r].loaded_modules
            /\ records[r].loaded_modules[s] \in inserted
            /\ PathOf(records[r].loaded_modules[s]) = TargetOf(r, s)
            /\ Len(Sources(TargetOf(r, s))) = 1 =>
                  records[r].loaded_modules[s] = module_map[TargetOf(r, s)].record
            /\ EdgeSent(StripPrefix(PathOf(r)), TargetOf(r, s))

\* the run has returned and a record holds a dependency that another job built
C5_Witness ==
    /\ resolver /\ RunDone
    /\ \E r \in inserted : \E s \in DOMAIN records[r].loaded_modules :
          /\ records[r].loaded_modules[s][1] # Append(r[1], s)
          /\ EdgeSent(StripPrefix(PathOf(r)), TargetOf(r, s))

\* C6: every message of edges is the list of one record's loaded_modules, one
\* edge per entry, each to a path that a specifier of the record resolves to
\* and that is Resolved in the Module Map; a record without requested
\* specifiers has no loaded_modules and a file without imports sends no
\* edges; a specifier whose target is Ignored gets no entry and no edge.
C6_EdgesOnlyAttached ==
    /\ \A i \in DOMAIN chan :
          chan[i].some /\ ~IsDiagnostic(chan[i]) =>
             \E r \in DOMAIN records :
                /\ StripPrefix(PathOf(r)) = chan[i].path
                /\ chan[i].items = ImportModules(r)
                /\ \A q \in BagToSet(chan[i].items) :
                      /\ IsResolved(q)
                      /\ \E s \in records[r].requested_modules : TargetOf(r, s) = q
    /\ \A r \in DOMAIN records :
          /\ records[r].requested_modules = {} => records[r].loaded_modules = << >>
          /\ \A s \in DOMAIN records[r].loaded_modules :
                /\ s \in records[r].requested_modules
                /\ IsResolved(TargetOf(r, s))
    /\ \A p \in AllPaths :
          RequestedBy(p) = {} =>
             ~\E i \in DOMAIN chan :
                 chan[i].some /\ ~IsDiagnostic(chan[i]) /\ chan[i].path = StripPrefix(p)

\* a record imports a path that is Ignored and a path that is Resolved, and
\* has sent its only edge
C6_Witness ==
    \E r \in DOMAIN records :
       /\ \E s \in records[r].requested_modules :
             TargetOf(r, s) \in DOMAIN module_map /\ module_map[TargetOf(r, s)] = Ignored
       /\ \E i \in DOMAIN chan :
             /\ chan[i].some /\ ~IsDiagnostic(chan[i])
             /\ chan[i].path = StripPrefix(PathOf(r))
             /\ BagCardinality(chan[i].items) = 1

\* the places of None in the channel
Sentinels == { i \in DOMAIN chan : ~chan[i].some }

\* C7: run sends None exactly once, after every job of the run has returned,
\* nested jobs included; nothing is sent after it, so the collector, which
\* stops at the first None, has then taken every message.
C7_SentinelLast ==
    /\ Cardinality(Sentinels) <= 1
    /\ \A i \in Sentinels : i = Len(chan) /\ DOMAIN tasks = {Root} /\ AllIdle /\ RunDone
    /\ RunDone => Sentinels # {}
    /\ ~collecting => received = Len(chan) /\ Sentinels # {}

\* the collector has left its loop after edges and diagnostics
C7_Witness == ~collecting /\ received >= 3

(***************************************************************************)
(* Writes of the Module Map, star exports, waiters.                        *)
(***************************************************************************)
\* C8: with cross-module resolution, once the Module Map holds a state for a
\* path no later operation inserts a state for that path again: every path
\* is inserted exactly once, a container file with two fragments included.
C8_WrittenOnce ==
    resolver => \A p \in AllPaths : Count(inserts, p) <= 1

\* the loop over star_export_entries of record r is over
StarDone(r) ==
    \/ r[1] \notin DOMAIN tasks
    \/ tasks[r[1]].frag > r[2]
    \/ tasks[r[1]].pc \in {"collect", "returned"}

\* C9: when the processing of a record with `export * from s` is complete,
\* and s resolves to a path C that is Resolved, the record's
\* exported_bindings_from_star_export has an entry under C that contains
\* every exported binding of the record of C it loaded (x and y, when those
\* are C's), in every interleaving; an entry whose target did not resolve
\* or is Ignored adds no key to the table.
C9_StarExports ==
    resolver =>
      \A r \in DOMAIN records :
         StarDone(r) =>
            LET table == records[r].exported_bindings_from_star_export
                entries == records[r].star_export_entries
                loaded == records[r].loaded_modules
            IN  /\ \A k \in DOMAIN entries :
                      TargetOf(r, entries[k]) # Fail /\ IsResolved(TargetOf(r, entries[k])) =>
                         /\ entries[k] \in DOMAIN loaded
                         /\ TargetOf(r, entries[k]) \in DOMAIN table
                         /\ \A x \in records[loaded[entries[k]]].exported_bindings :
                               BagIn(x, table[TargetOf(r, entries[k])])
                /\ DOMAIN table =
                      { TargetOf(r, entries[k]) : k \in DOMAIN entries } \cap
                      { q \in AllPaths : IsResolved(q) }

\* b.ts has re-exported x and y of c.ts, which another job built
C9_Witness ==
    /\ resolver
    /\ \E r \in DOMAIN records :
          /\ StarDone(r)
          /\ PC \in DOMAIN records[r].exported_bindings_from_star_export
          /\ BagIn("x", records[r].exported_bindings_from_star_export[PC])
          /\ BagIn("y", records[r].exported_bindings_from_star_export[PC])
          /\ \E s \in DOMAIN records[r].loaded_modules :
                records[r].loaded_modules[s][1] # Append(r[1], s)

\* an entry goes from ReadyToConstruct to PendingStore by a miss, and from
\* PendingStore to what update_cache_state makes of it
EntryStep(p) ==
    \/ cache_state'[p] = cache_state[p]
    \/ /\ cache_state[p] = ReadyToConstruct
       /\ cache_state'[p].tag = "PendingStore"
       /\ Count(misses', p) = Count(misses, p) + 1
    \/ /\ cache_state[p].tag = "PendingStore"
       /\ cache_state'[p] = Release(cache_state[p])
       /\ UNCHANGED << misses, hits >>

\* C10: no waiting thread is skipped: an entry only moves from
\* ReadyToConstruct to PendingStore by a claim that missed and from
\* PendingStore towards ReadyToConstruct by a release; and the threads that
\* are blocked on a path all return after its release, though each release
\* and each hit wakes only one of them: from some point on no thread is
\* blocked in wait_while any more.
C10_NoWaiterSkipped ==
    /\ [][\A p \in DOMAIN cache_state : EntryStep(p)]_vars
    /\ <>[](\A t \in DOMAIN tasks : tasks[t].pc # "waiting")

\* a release has woken one of two waiters; the other is still blocked
C10_Witness ==
    \E p \in DOMAIN cache_state :
       /\ cache_state[p] = ReadyToConstruct
       /\ Waiters(p) # {}
       /\ \E t \in DOMAIN tasks :
             tasks[t].path = p /\ tasks[t].pc = "lock" /\ tasks[t].blocked

(***************************************************************************)
(* Paths that are ignored, specifiers that do not resolve, syntax errors.  *)
(***************************************************************************)
\* read_to_string(path) fails in get_source_type_and_text
ReadFails(p) == Extension(p) # NoExt /\ GetSourceTypeAndText(p) = "Err"

\* the messages (path, items) on the channel
Messages(path, items) ==
    { i \in DOMAIN chan : chan[i].some /\ chan[i].path = path /\ chan[i].items = items }

\* the messages of edges that process_path(p) has sent
EdgesFrom(p) ==
    { i \in DOMAIN chan : chan[i].some /\ ~IsDiagnostic(chan[i]) /\ chan[i].path = StripPrefix(p) }

\* a job is between the miss on p and the end of the read-error branch
Ignoring(p) ==
    \E t \in DOMAIN tasks :
       tasks[t].path = p /\ tasks[t].pc \in {"load", "ignore", "ignore_update", "diagnostic"}

\* a record that requests p has its other dependencies attached and sent
OthersAttached(r) ==
    \A s \in records[r].requested_modules :
       TargetOf(r, s) # Fail /\ IsResolved(TargetOf(r, s)) =>
          /\ s \in DOMAIN records[r].loaded_modules
          /\ EdgeSent(StripPrefix(PathOf(r)), TargetOf(r, s))

\* C11: with cross-module resolution, a path p whose read fails is Ignored in
\* the Module Map and its entry is ReadyToConstruct when process_path(p) has
\* returned; one diagnostic (p, [error message]) is sent, by the one job that
\* missed on p, and never a second one; no record is built for p, p sends no
\* edges and is attached nowhere; and the run goes on: it returns with the
\* sentinel sent, and a record that requested p is Resolved with its other
\* dependencies attached and their edges sent.
C11_ReadFailure ==
    /\ [](resolver =>
            \A p \in AllPaths : ReadFails(p) =>
               /\ Cardinality(Messages(p, ReadError(p))) =
                     (IF Count(misses, p) = 1 /\ ~Ignoring(p) THEN 1 ELSE 0)
               /\ EdgesFrom(p) = {}
               /\ \A r \in DOMAIN records :
                     /\ PathOf(r) # p
                     /\ \A s \in DOMAIN records[r].loaded_modules : TargetOf(r, s) # p
               /\ p \in DOMAIN module_map => module_map[p] = Ignored
               /\ \A t \in DOMAIN tasks :
                     tasks[t].path = p /\ tasks[t].pc = "returned" =>
                        /\ p \in DOMAIN module_map /\ module_map[p] = Ignored
                        /\ cache_state[p] = ReadyToConstruct)
    /\ <>[](resolver =>
            /\ RunDone /\ Sentinels = {Len(chan)}
            /\ \A p \in DOMAIN cache_state : ReadFails(p) =>
                  /\ module_map[p] = Ignored
                  /\ cache_state[p] = ReadyToConstruct
                  /\ Cardinality(Messages(p, ReadError(p))) = 1
                  /\ \A r \in inserted :
                        (\E s \in records[r].requested_modules : TargetOf(r, s) = p) =>
                           IsResolved(PathOf(r)) /\ OthersAttached(r))

\* the run has returned; a.ts requested b.ts, which could not be read, and
\* c.ts, which is attached; the diagnostic of b.ts is on the channel
C11_Witness ==
    /\ resolver /\ RunDone
    /\ \E r \in inserted : \E s1, s2 \in records[r].requested_modules :
          /\ TargetOf(r, s1) # Fail /\ ReadFails(TargetOf(r, s1))
          /\ module_map[TargetOf(r, s1)] = Ignored
          /\ Messages(TargetOf(r, s1), ReadError(TargetOf(r, s1))) # {}
          /\ s2 \in DOMAIN records[r].loaded_modules

\* process_path ignores p without a diagnostic: no extension, an extension
\* that neither the parser nor a fragment loader supports, or no fragment
SilentlyIgnored(p) ==
    IF Extension(p) = NoExt \/ GetSourceTypeAndText(p) = "None" THEN TRUE
    ELSE IF GetSourceTypeAndText(p) = "Err" THEN FALSE
    ELSE Sources(p) = << >>

\* a record that requests path p
Importers(p) ==
    { r \in inserted : \E s \in records[r].requested_modules : TargetOf(r, s) = p }

\* C12: with cross-module resolution, a path without extension, with an
\* extension that nothing supports, or whose loader yields no fragment is
\* Ignored in the Module Map and its entry is ReadyToConstruct when
\* process_path has returned; no message (diagnostic or edges) is ever sent
\* for it, no record is built for it and it is attached nowhere; and the run
\* goes on: it returns, every entry path has a terminal state, and a record
\* that requested the path is Resolved with its other dependencies attached.
C12_SilentIgnore ==
    /\ [](resolver =>
            \A p \in AllPaths : SilentlyIgnored(p) =>
               /\ \A i \in DOMAIN chan : chan[i].some => chan[i].path \notin {p, StripPrefix(p)}
               /\ \A r \in DOMAIN records :
                     /\ PathOf(r) # p
                     /\ \A s \in DOMAIN records[r].loaded_modules : TargetOf(r, s) # p
               /\ p \in DOMAIN module_map => module_map[p] = Ignored
               /\ \A t \in DOMAIN tasks :
                     tasks[t].path = p /\ tasks[t].pc = "returned" =>
                        /\ p \in DOMAIN module_map /\ module_map[p] = Ignored
                        /\ cache_state[p] = ReadyToConstruct)
    /\ <>[](resolver =>
            /\ RunDone /\ AllIdle /\ DOMAIN tasks = {Root}
            /\ \A q \in paths : Terminal(q)
            /\ \A p \in DOMAIN cache_state : SilentlyIgnored(p) =>
                  /\ module_map[p] = Ignored
                  /\ cache_state[p] = ReadyToConstruct
                  /\ \A r \in Importers(p) : IsResolved(PathOf(r)) /\ OthersAttached(r))

\* the run has returned; a file without extension, a .txt file and a
\* container file without fragment are Ignored, the last two imported by a
\* record that is Resolved
C12_Witness ==
    /\ resolver /\ RunDone /\ chan = << None >>
    /\ \E p1, p2, p3 \in DOMAIN module_map :
          /\ Extension(p1) = NoExt /\ module_map[p1] = Ignored
          /\ Extension(p2) # NoExt /\ GetSourceTypeAndText(p2) = "None"
          /\ module_map[p2] = Ignored /\ Importers(p2) # {}
          /\ Extension(p3) \in LINT_PARTIAL_LOADER_EXT /\ module_map[p3] = Ignored
          /\ \E r \in Importers(p3) : IsResolved(PathOf(r))

\* the specifiers of record r that the resolver cannot resolve
Unresolvable(r) == { s \in records[r].requested_modules : TargetOf(r, s) = Fail }

\* some script of p has a syntax error
HasSyntaxError(p) ==
    /\ Extension(p) # NoExt /\ GetSourceTypeAndText(p) = "Ok"
    /\ \E i \in DOMAIN Sources(p) : Sources(p)[i].errors

\* the paths process_path is called with: the entry paths and what the
\* specifiers of the records resolve to
Visited ==
    paths \cup
    (UNION { { TargetOf(r, s) : s \in records[r].requested_modules } : r \in DOMAIN records }
        \ {Fail})

\* C13: a specifier of p that does not resolve is dropped silently: no job is
\* started for it, it gets no entry in p's loaded_modules and no edge, no
\* message is sent because of it (every diagnostic on the channel is a read
\* error of an unreadable path or the syntax errors of a script that has
\* some), and it adds no key to the Module Map or the Cache-State Table
\* (their keys are entry paths and resolved targets); when the run has
\* returned p is Resolved and its specifiers that resolve to a Resolved path
\* are attached and their edges sent.
C13_UnresolvedDropped ==
    /\ \A t \in DOMAIN tasks \ {Root} :
          /\ tasks[t].path # Fail
          /\ Len(t) > 1 => Resolve(Parent(tasks[ParentOf(t)].path), t[Len(t)]) = tasks[t].path
    /\ \A r \in DOMAIN records : \A s \in Unresolvable(r) :
          s \notin DOMAIN records[r].loaded_modules
    /\ \A i \in DOMAIN chan :
          chan[i].some =>
             IF IsDiagnostic(chan[i])
             THEN \/ ReadFails(chan[i].path) /\ chan[i].items = ReadError(chan[i].path)
                  \/ HasSyntaxError(chan[i].path) /\ chan[i].items = SyntaxErrors(chan[i].path)
             ELSE BagToSet(chan[i].items) \subseteq { q \in AllPaths : IsResolved(q) }
    /\ DOMAIN module_map \subseteq DOMAIN cache_state \/ ~resolver
    /\ DOMAIN cache_state \subseteq Visited
    /\ resolver /\ RunDone =>
          \A r \in inserted :
             Unresolvable(r) # {} => IsResolved(PathOf(r)) /\ OthersAttached(r)

\* the run has returned; b.ts requested "./missing" and c.ts, and has sent
\* its one edge, to c.ts
C13_Witness ==
    /\ resolver /\ RunDone
    /\ \E r \in inserted :
          /\ Unresolvable(r) # {}
          /\ records[r].loaded_modules # << >>
          /\ Messages(StripPrefix(PathOf(r)), ImportModules(r)) # {}

\* the records built from a script of p that has a syntax error
RecordsWithErrors(p) ==
    { r \in DOMAIN records : PathOf(r) = p /\ Sources(p)[r[2]].errors }

\* C14: a syntax error is reported and does not abort the file: each parse of
\* a script with errors sends one message (path, messages); with cross-module
\* resolution the path is never Ignored, it is Resolved with its entry
\* ReadyToConstruct when process_path has returned, and when the run has
\* returned each of its specifiers that resolves has been recursed into (the
\* target has a state in the Module Map), those whose target is Resolved are
\* attached, and their edges have been sent.
C14_SyntaxErrorReported ==
    \A p \in AllPaths : HasSyntaxError(p) =>
       /\ Cardinality(Messages(p, SyntaxErrors(p))) = Cardinality(RecordsWithErrors(p))
       /\ resolver =>
            /\ p \in DOMAIN module_map => IsResolved(p)
            /\ \A t \in DOMAIN tasks :
                  tasks[t].path = p /\ tasks[t].pc = "returned" =>
                     IsResolved(p) /\ cache_state[p] = ReadyToConstruct
            /\ RunDone /\ p \in DOMAIN cache_state =>
                  /\ IsResolved(p)
                  /\ \A r \in inserted : PathOf(r) = p =>
                        /\ OthersAttached(r)
                        /\ \A s \in records[r].requested_modules :
                              TargetOf(r, s) # Fail => Terminal(TargetOf(r, s))

\* the run has returned; a.ts has a syntax error, its diagnostic and its edge
\* to c.ts are on the channel
C14_Witness ==
    /\ resolver /\ RunDone
    /\ \E r \in inserted :
          /\ HasSyntaxError(PathOf(r)) /\ IsResolved(PathOf(r))
          /\ Messages(PathOf(r), SyntaxErrors(PathOf(r))) # {}
          /\ records[r].loaded_modules # << >>
          /\ Messages(StripPrefix(PathOf(r)), ImportModules(r)) # {}

(***************************************************************************)
(* Single-file mode.                                                       *)
(***************************************************************************)
\* process_path(p) gets as far as process_source
Parsed(p) ==
    /\ Extension(p) # NoExt /\ GetSourceTypeAndText(p) = "Ok"
    /\ Sources(p) # << >>

\* C15: with cross-module resolution disabled, processing a path inserts a
\* Resolved state for it into the Module Map (it is there when process_path
\* has returned), no specifier is resolved, no dependency is recursed into
\* (every job is the job of an entry path) and no edges are returned: no
\* record has a loaded module and every message is a diagnostic.
C15_SingleFileInserts ==
    ~resolver =>
       /\ \A t \in DOMAIN tasks \ {Root} :
             /\ Len(t) = 1
             /\ tasks[t].pc = "returned" /\ Parsed(tasks[t].path) => IsResolved(tasks[t].path)
       /\ \A r \in DOMAIN records : records[r].loaded_modules = << >>
       /\ \A i \in DOMAIN chan : chan[i].some => IsDiagnostic(chan[i])

(***************************************************************************)
(* Early release, the dependency barrier, hits, the counter.               *)
(***************************************************************************)
\* the jobs that have claimed p and not released it: between the miss of
\* init_cache_state and the end of update_cache_state
Claimants(p) ==
    { t \in DOMAIN tasks \ {Root} :
         /\ tasks[t].path = p /\ tasks[t].frag <= 1
         /\ tasks[t].pc \in {"load", "ignore", "ignore_update", "parse", "insert", "update"} }

\* job t is what its worker is executing: no other job was taken on top of it
Running(t) == \E th \in DOMAIN stacks : ~Idle(th) /\ Top(th) = t

\* job t has handed a specifier to the pool
FannedOut(t) == tasks[t].pc \in {"barrier", "star", "collect"} \/ Children(t) # {}

\* C16: with cross-module resolution the record of a path is inserted and
\* its entry released before any of its specifiers is resolved or recursed
\* into: a job that has fanned out, or waits at its barrier, has its path in
\* the Module Map and its entry ReadyToConstruct; while an entry is
\* PendingStore the one job that claimed it is running on its worker, has
\* started no dependency, and is not blocked in wait_while or at a barrier;
\* and a thread that was blocked on p goes on when p is inserted and
\* released, whether or not p's dependencies are built: whenever some job
\* waits on p, either p is still claimed by a running job or p is in the
\* Module Map with its entry ReadyToConstruct.
C16_ReleaseBeforeFanOut ==
    resolver =>
       /\ \A t \in DOMAIN tasks \ {Root} :
             FannedOut(t) =>
                /\ IsResolved(tasks[t].path)
                /\ cache_state[tasks[t].path] = ReadyToConstruct
       /\ \A p \in DOMAIN cache_state :
             cache_state[p].tag = "PendingStore" =>
                /\ Cardinality(Claimants(p)) = 1
                /\ \A t \in Claimants(p) :
                      Running(t) /\ Children(t) = {} /\ tasks[t].todo = {}
       /\ \A p \in DOMAIN cache_state :
             Waiters(p) # {} =>
                \/ cache_state[p].tag = "PendingStore"
                \/ cache_state[p] = ReadyToConstruct /\ Terminal(p)

\* a job that was blocked on b.ts has returned with a hit while the job that
\* built b.ts still waits at its barrier for a dependency that is not built
C16_Witness ==
    /\ resolver
    /\ \E t, b \in DOMAIN tasks \ {Root} :
          /\ t # b /\ tasks[t].path = tasks[b].path
          /\ tasks[t].blocked /\ tasks[t].hit /\ tasks[t].pc = "returned"
          /\ tasks[b].pc = "barrier"
          /\ \E c \in Children(b) : tasks[c].path \notin DOMAIN module_map

\* the star-export entries of record r whose target is Resolved
ResolvedStars(r) ==
    { s \in { records[r].star_export_entries[k] : k \in DOMAIN records[r].star_export_entries } :
         TargetOf(r, s) # Fail /\ IsResolved(TargetOf(r, s)) }

\* C17: star-export propagation is transitive: when a cross-module run has
\* returned, for every record B with `export * from C` and C's record with
\* `export * from D` (B, C, D Resolved), B's exported_bindings_from_star_export
\* holds every exported binding of D under C's path, in every interleaving,
\* also when B's visit of C was a cache hit while another job was building C.
C17_StarTransitive ==
    resolver /\ RunDone =>
       \A b \in inserted : \A sc \in ResolvedStars(b) :
          sc \in DOMAIN records[b].loaded_modules =>
             LET c == records[b].loaded_modules[sc]
             IN  \A sd \in ResolvedStars(c) :
                    sd \in DOMAIN records[c].loaded_modules =>
                       \A z \in records[records[c].loaded_modules[sd]].exported_bindings :
                          /\ PathOf(c) \in DOMAIN records[b].exported_bindings_from_star_export
                          /\ BagIn(z, records[b].exported_bindings_from_star_export[PathOf(c)])

\* the jobs started from job t, directly or through other jobs
Descendants(t) ==
    { c \in DOMAIN tasks : Len(c) > Len(t) /\ SubSeq(c, 1, Len(t)) = t }

\* C18: the dependency barrier: with cross-module resolution a job is in the
\* loop over its star_export_entries or collecting its edges only when every
\* specifier of its record was handed out and every job started for them has
\* returned, the jobs started by those included; and then the record's
\* loaded_modules has an entry for every specifier that resolves to a path
\* that is Resolved in the Module Map.
C18_DependencyBarrier ==
    resolver =>
       \A t \in DOMAIN tasks \ {Root} :
          tasks[t].pc \in {"star", "collect"} =>
             /\ tasks[t].todo = {}
             /\ Descendants(t) = {}
             /\ \A s \in records[RecordOf(t)].requested_modules :
                   TargetOf(RecordOf(t), s) # Fail /\ IsResolved(TargetOf(RecordOf(t), s)) =>
                      /\ s \in DOMAIN records[RecordOf(t)].loaded_modules
                      /\ PathOf(records[RecordOf(t)].loaded_modules[s]) = TargetOf(RecordOf(t), s)

\* a job enters its star-export loop with a dependency attached that another
\* job built, while other jobs of the run are still running
C18_Witness ==
    /\ resolver
    /\ \E t \in DOMAIN tasks \ {Root} :
          /\ tasks[t].pc = "star" /\ tasks[t].star = 1
          /\ \E s \in DOMAIN records[RecordOf(t)].loaded_modules :
                records[RecordOf(t)].loaded_modules[s][1] # Append(t, s)
          /\ \E u \in DOMAIN tasks \ {Root, t} : tasks[u].pc # "returned"

\* the step in which init_cache_state of job t finds the path in the Module
\* Map and returns true
HitStep(t) == ~tasks[t].hit /\ t \in DOMAIN tasks' /\ tasks'[t].hit

\* C19: a call of process_path(p) that gets a cache hit changes nothing
\* observable: the step that decides the hit leaves the Module Map, the
\* channel, the records and the Cache-State Table as they are, with p's
\* entry ReadyToConstruct, and starts no job; the call then returns at once:
\* a job with a hit has parsed no fragment, built no record, handed out no
\* specifier and started no job, and p stays in the Module Map with its
\* entry ReadyToConstruct.
C19_HitChangesNothing ==
    /\ [][\A t \in DOMAIN tasks :
             HitStep(t) =>
                /\ UNCHANGED << module_map, chan, records, cache_state, misses,
                                inserts, inserted, stacks >>
                /\ cache_state[tasks[t].path] = ReadyToConstruct
                /\ tasks[t].path \in DOMAIN module_map
                /\ DOMAIN tasks' = DOMAIN tasks
                /\ tasks'[t].pc = "returned"]_vars
    /\ [](\A t \in DOMAIN tasks :
             tasks[t].hit =>
                /\ tasks[t].pc = "returned" /\ tasks[t].frag = 0
                /\ tasks[t].todo = {} /\ Descendants(t) = {}
                /\ Terminal(tasks[t].path)
                /\ cache_state[tasks[t].path] = ReadyToConstruct)

\* the job of an entry path has returned from a hit without having been
\* blocked: the path was built as a dependency of another entry path
C19_Witness ==
    \E t \in DOMAIN tasks :
       /\ Len(t) = 1 /\ tasks[t].hit /\ ~tasks[t].blocked /\ tasks[t].pc = "returned"
       /\ IsResolved(tasks[t].path)
       /\ chan # << >>

\* the step in which job t calls update_cache_state on an entry that is
\* ReadyToConstruct
UpdateOfReady(t) ==
    /\ tasks[t].pc \in {"update", "ignore_update"}
    /\ cache_state[tasks[t].path] = ReadyToConstruct
    /\ t \in DOMAIN tasks' /\ tasks'[t].pc # tasks[t].pc

\* C20: every Cache-State entry is ReadyToConstruct or PendingStore(1): the
\* counter is never 0 and never above 1, so at most one job at a time is
\* between the claim and the release of a path, and exactly one while the
\* entry is PendingStore; update_cache_state never takes the counter below
\* zero; and update_cache_state on an entry that is ReadyToConstruct leaves
\* the table as it is and wakes nobody.
C20_CounterIsOne ==
    /\ [](\A p \in DOMAIN cache_state :
             /\ cache_state[p] \in {ReadyToConstruct, PendingStore(1)}
             /\ Release(cache_state[p]) = ReadyToConstruct
             /\ Cardinality(Claimants(p)) =
                   (IF cache_state[p] = PendingStore(1) THEN 1 ELSE 0))
    /\ [][\A t \in DOMAIN tasks \ {Root} :
             UpdateOfReady(t) =>
                /\ cache_state' = cache_state
                /\ DOMAIN tasks' = DOMAIN tasks
                /\ \A w \in DOMAIN tasks \ {t} : tasks'[w] = tasks[w]]_vars

\* update_cache_state was called for the second fragment of a container
\* file, whose entry was ReadyToConstruct, while another path is claimed
C20_Witness ==
    /\ \E t \in DOMAIN tasks \ {Root} :
          /\ tasks[t].frag = 2 /\ tasks[t].pc = "barrier"
          /\ cache_state[tasks[t].path] = ReadyToConstruct
    /\ \E q \in DOMAIN cache_state : cache_state[q] = PendingStore(1)

(***************************************************************************)
(* The keys of the Module Map.                                             *)
(***************************************************************************)
\* the keys of the Module Map that name file f
KeysOf(f) == { p \in DOMAIN module_map : FileOf(p) = f }

\* the calls of process_path that missed and went on to build file f
Builds(f) ==
    LET Sum[S \in SUBSET AllPaths] ==
            IF S = {} THEN 0
            ELSE LET p == CHOOSE q \in S : TRUE
                 IN  Sum[S \ {p}] + (IF FileOf(p) = f THEN Count(misses, p) ELSE 0)
    IN  Sum[AllPaths]

\* C21: the Module Map is keyed by canonical path: when a cross-module run
\* has returned, every file that was reached, as an entry path as given, as
\* a resolved path, or both, has exactly one Module State in the Module Map,
\* and at no time has a file been built more than once.
C21_CanonicalKeys ==
    resolver =>
       \A f \in AbsPaths :
          /\ Builds(f) <= 1
          /\ RunDone /\ (\E p \in DOMAIN cache_state : FileOf(p) = f) =>
                Cardinality(KeysOf(f)) = 1

====
